---- MODULE Spec2Model ----
(***************************************************************************)
(* Model of generate_arxiv_snapshot.py: fetch each configured author's     *)
(* Atom feed, parse it, merge/deduplicate/sort the papers, render the page *)
(* and write it.                                                           *)
(*                                                                         *)
(* A Python str is a sequence of one-character strings; a value that may   *)
(* be None is a record [none, s].  An exception is the field exc of an     *)
(* operator's result.                                                      *)
(***************************************************************************)
EXTENDS Naturals, Integers, Sequences, FiniteSets, TLC

VARIABLES authors, pc, idx, xml_data, all_author_papers, all_papers, html_content,
          fetched, p_pc, p_xml, p_papers, d_pc, d_in, d_out, d_html

vars == <<authors, pc, idx, xml_data, all_author_papers, all_papers, html_content,
          fetched, p_pc, p_xml, p_papers, d_pc, d_in, d_out, d_html>>

mainVars == <<authors, pc, idx, xml_data, all_author_papers, all_papers, html_content, fetched>>

parseVars == <<p_pc, p_xml, p_papers>>

dateVars == <<d_pc, d_in, d_out, d_html>>

(***************************************************************************)
(* Python values                                                           *)
(***************************************************************************)
None == [none |-> TRUE, s |-> <<>>]

Str(s) == [none |-> FALSE, s |-> s]

\* Truth value of an optional str: None and '' are false.
Truthy(v) == ~v.none /\ v.s # <<>>

\* The characters of the strings that are compared (the sort keys), in code point
\* order.
Ascii ==
    <<"\n", " ", "\"", "&", "'", "+", ",", "-", ".", "/",
      "0", "1", "2", "3", "4", "5", "6", "7", "8", "9",
      ":", ";", "<", ">", "D", "F", "J", "N", "T", "Z",
      "a", "b", "c", "d", "e", "g", "l", "m", "n", "o", "p", "q", "s", "t", "u", "x">>

Ord(c) == CHOOSE k \in 1..Len(Ascii) : Ascii[k] = c

\* a < b on str: lexicographic by code point.
RECURSIVE StrLess(_, _)
StrLess(a, b) ==
    IF b = <<>> THEN FALSE
    ELSE IF a = <<>> THEN TRUE
    ELSE IF Head(a) = Head(b) THEN StrLess(Tail(a), Tail(b))
    ELSE Ord(Head(a)) < Ord(Head(b))

Take(s, n) == SubSeq(s, 1, IF n < Len(s) THEN n ELSE Len(s))

Drop(s, n) == SubSeq(s, n + 1, Len(s))

\* s.find(sub) + 1: the first position where sub occurs in s, 0 when none.
Find(s, sub) ==
    LET hits == {k \in 1..(Len(s) + 1) : k + Len(sub) - 1 <= Len(s)
                                          /\ SubSeq(s, k, k + Len(sub) - 1) = sub}
    IN IF hits = {} THEN 0 ELSE CHOOSE k \in hits : \A j \in hits : k <= j

\* sub in s
Contains(s, sub) == Find(s, sub) # 0

\* s.split(sep)[-1]
RECURSIVE SplitLast(_, _)
SplitLast(s, sep) ==
    IF Find(s, sep) = 0 THEN s
    ELSE SplitLast(Drop(s, Find(s, sep) + Len(sep) - 1), sep)

Whitespace == {" ", "\n"}

RECURSIVE LStrip(_)
LStrip(s) == IF s # <<>> /\ Head(s) \in Whitespace THEN LStrip(Tail(s)) ELSE s

RECURSIVE RStrip(_)
RStrip(s) ==
    IF s # <<>> /\ s[Len(s)] \in Whitespace THEN RStrip(SubSeq(s, 1, Len(s) - 1)) ELSE s

\* s.strip()
Strip(s) == RStrip(LStrip(s))

\* s.replace(old, new) for a one-character old
RECURSIVE Replace(_, _, _)
Replace(s, old, new) ==
    IF s = <<>> THEN <<>>
    ELSE (IF Head(s) = old THEN new ELSE <<Head(s)>>) \o Replace(Tail(s), old, new)

\* sep.join(parts), parts being str
RECURSIVE Join(_, _)
Join(sep, parts) ==
    IF parts = <<>> THEN <<>>
    ELSE IF Len(parts) = 1 THEN parts[1]
    ELSE parts[1] \o sep \o Join(sep, Tail(parts))

CommaSpace == <<",", " ">>

\* html.escape(s) with quote=True
EscapeChar(c) ==
    CASE c = "&" -> <<"&", "a", "m", "p", ";">>
      [] c = "<" -> <<"&", "l", "t", ";">>
      [] c = ">" -> <<"&", "g", "t", ";">>
      [] c = "\"" -> <<"&", "q", "u", "o", "t", ";">>
      [] c = "'" -> <<"&", "#", "x", "2", "7", ";">>
      [] OTHER -> <<c>>

RECURSIVE escape(_)
escape(s) == IF s = <<>> THEN <<>> ELSE EscapeChar(Head(s)) \o escape(Tail(s))

(***************************************************************************)
(* datetime.fromisoformat and strftime('%b %d, %Y'), as format_date uses   *)
(* them.  The format is the one CPython 3.7 to 3.10 parse, for which the   *)
(* source replaces 'Z':                                                    *)
(*     YYYY-MM-DD[*HH[:MM[:SS[.fff[fff]]]][+HH:MM[:SS[.ffffff]]]]          *)
(* Later versions also parse basic and week dates and other fractions;     *)
(* no input of the model is of those forms.                                *)
(***************************************************************************)
Digits == <<"0", "1", "2", "3", "4", "5", "6", "7", "8", "9">>

IsDigit(c) == \E k \in 1..10 : Digits[k] = c

AllDigits(s) == s # <<>> /\ \A k \in 1..Len(s) : IsDigit(s[k])

DigitVal(c) == (CHOOSE k \in 1..10 : Digits[k] = c) - 1

RECURSIVE IntOf(_)
IntOf(s) == IF s = <<>> THEN 0 ELSE 10 * IntOf(SubSeq(s, 1, Len(s) - 1)) + DigitVal(s[Len(s)])

BadTime == [ok |-> FALSE, h |-> 0, m |-> 0, sec |-> 0]

\* parse_hh_mm_ss_ff: HH[:MM[:SS[.fff[fff]]]]
ParseHhMmSsFf(t) ==
    LET n == Len(t)
        two(p) == SubSeq(t, p, p + 1)
        frac(p) == \* what follows the last component read, which ends before p
            p > n \/ (t[p] = "." /\ (n - p) \in {3, 6} /\ AllDigits(Drop(t, p)))
    IN IF n < 2 \/ ~AllDigits(two(1)) THEN BadTime
       ELSE IF n = 2 THEN [ok |-> TRUE, h |-> IntOf(two(1)), m |-> 0, sec |-> 0]
       ELSE IF t[3] # ":" \/ n < 5 \/ ~AllDigits(two(4)) THEN BadTime
       ELSE IF n = 5 THEN [ok |-> TRUE, h |-> IntOf(two(1)), m |-> IntOf(two(4)), sec |-> 0]
       ELSE IF t[6] # ":" \/ n < 8 \/ ~AllDigits(two(7)) THEN BadTime
       ELSE [ok |-> frac(9), h |-> IntOf(two(1)), m |-> IntOf(two(4)), sec |-> IntOf(two(7))]

\* parse_isoformat_time: the time up to the first sign, then the offset; and the
\* range checks of datetime() and timezone()
TimeOk(t) ==
    LET minus == Find(t, <<"-">>)
        plus == Find(t, <<"+">>)
        tzpos == IF minus # 0 /\ (plus = 0 \/ minus < plus) THEN minus ELSE plus
        timestr == IF tzpos > 0 THEN SubSeq(t, 1, tzpos - 1) ELSE t
        tm == ParseHhMmSsFf(timestr)
        tzstr == Drop(t, tzpos)
        tz == ParseHhMmSsFf(tzstr)
    IN /\ Len(t) >= 2
       /\ tm.ok /\ tm.h < 24 /\ tm.m < 60 /\ tm.sec < 60
       /\ (tzpos > 0 => (/\ Len(tzstr) \in {5, 8, 15}
                          /\ tz.ok
                          /\ tz.h * 3600 + tz.m * 60 + tz.sec < 86400))

IsLeap(y) == y % 4 = 0 /\ (y % 100 # 0 \/ y % 400 = 0)

DaysInMonth(y, m) ==
    IF m = 2 THEN (IF IsLeap(y) THEN 29 ELSE 28)
    ELSE IF m \in {4, 6, 9, 11} THEN 30 ELSE 31

\* datetime.fromisoformat(s): ok is FALSE where it raises ValueError
fromisoformat(s) ==
    LET dstr == Take(s, 10)
        tstr == Drop(s, 11)
        shaped == /\ Len(dstr) = 10
                  /\ AllDigits(SubSeq(dstr, 1, 4)) /\ dstr[5] = "-"
                  /\ AllDigits(SubSeq(dstr, 6, 7)) /\ dstr[8] = "-"
                  /\ AllDigits(SubSeq(dstr, 9, 10))
        y == IntOf(SubSeq(dstr, 1, 4))
        m == IntOf(SubSeq(dstr, 6, 7))
        d == IntOf(SubSeq(dstr, 9, 10))
    IN IF /\ shaped
          /\ y >= 1 /\ m \in 1..12 /\ d >= 1 /\ d <= DaysInMonth(y, m)
          /\ (Len(s) > 10 => TimeOk(tstr))
       THEN [ok |-> TRUE, y |-> SubSeq(dstr, 1, 4), m |-> m, d |-> SubSeq(dstr, 9, 10)]
       ELSE [ok |-> FALSE, y |-> <<>>, m |-> 0, d |-> <<>>]

MonthAbbr ==
    <<<<"J", "a", "n">>, <<"F", "e", "b">>, <<"M", "a", "r">>, <<"A", "p", "r">>,
      <<"M", "a", "y">>, <<"J", "u", "n">>, <<"J", "u", "l">>, <<"A", "u", "g">>,
      <<"S", "e", "p">>, <<"O", "c", "t">>, <<"N", "o", "v">>, <<"D", "e", "c">>>>

\* dt.strftime('%b %d, %Y')
strftime(dt) == MonthAbbr[dt.m] \o <<" ">> \o dt.d \o <<",", " ">> \o dt.y

UtcOffset == <<"+", "0", "0", ":", "0", "0">>

\* A plausible slip: the replaced string is kept in date_string and returned.
format_date_replaced(date_string) ==
    IF date_string.none THEN date_string
    ELSE LET replaced == Replace(date_string.s, "Z", UtcOffset)
             dt == fromisoformat(replaced)
         IN IF dt.ok THEN Str(strftime(dt)) ELSE Str(replaced)

\* format_date(date_string): the bare except returns the argument on any exception,
\* None.replace (AttributeError) included.
format_date(date_string) ==
    IF date_string.none THEN date_string
    ELSE LET dt == fromisoformat(Replace(date_string.s, "Z", UtcOffset))
         IN IF dt.ok THEN Str(strftime(dt)) ELSE date_string

(***************************************************************************)
(* parse_atom_feed                                                         *)
(*                                                                         *)
(* A parsed document is its list of atom:entry elements.  A sub-element    *)
(* is [present, text]: present is FALSE where entry.find returns None,     *)
(* text is None for an element without text.  authors holds the atom:name  *)
(* child of each atom:author, categories the term attribute of each        *)
(* atom:category.  tag names the entry (author, position in the feed); it  *)
(* is copied into the record and read by no operation.                     *)
(***************************************************************************)
MAX_PAPERS_PER_AUTHOR == 20

Absent == [present |-> FALSE, text |-> None]

El(text) == [present |-> TRUE, text |-> text]

AbsMarker == <<"/", "a", "b", "s", "/">>

\* The statements of the loop body that raise: author.find(...).text on an author
\* without a name, '/abs/' in url on an id without text, .strip() on a title or
\* summary without text.
EntryRaises(entry) ==
    \/ \E k \in 1..Len(entry.authors) : ~entry.authors[k].present
    \/ entry.id.present /\ entry.id.text.none
    \/ /\ entry.title.present /\ entry.id.present
       /\ \/ entry.title.text.none
          \/ entry.summary.present /\ entry.summary.text.none

\* if title is not None and id_elem is not None
EntryKept(entry) == entry.title.present /\ entry.id.present

\* The dict appended for an entry.
PaperOf(entry) ==
    LET url == entry.id.text.s
    IN [tag |-> entry.tag,
        title |-> Strip(entry.title.text.s),
        summary |-> IF entry.summary.present THEN Strip(entry.summary.text.s) ELSE <<>>,
        authors |-> [k \in 1..Len(entry.authors) |-> entry.authors[k].text],
        published |-> IF entry.published.present THEN entry.published.text ELSE Str(<<>>),
        updated |-> IF entry.updated.present THEN entry.updated.text ELSE Str(<<>>),
        url |-> url,
        arxiv_id |-> IF Contains(url, AbsMarker) THEN Str(SplitLast(url, AbsMarker)) ELSE None,
        categories |-> Take(entry.categories, 3)]

\* The for loop over entries: papers is the list so far; exc tells that an entry raised.
RECURSIVE ParseEntries(_, _)
ParseEntries(entries, papers) ==
    IF entries = <<>> THEN [exc |-> FALSE, papers |-> papers]
    ELSE IF EntryRaises(Head(entries)) THEN [exc |-> TRUE, papers |-> papers]
    ELSE ParseEntries(Tail(entries),
                      IF EntryKept(Head(entries))
                      THEN Append(papers, PaperOf(Head(entries))) ELSE papers)

\* A plausible slip: the handler returns the papers collected before the exception.
parse_atom_feed_partial(xml_text) ==
    IF ~xml_text.wellformed THEN <<>>
    ELSE ParseEntries(Take(xml_text.entries, MAX_PAPERS_PER_AUTHOR), <<>>).papers

\* A plausible slip: the cap is applied to the records, after the skips.
parse_atom_feed_late_cap(xml_text) ==
    LET r == ParseEntries(xml_text.entries, <<>>)
    IN IF ~xml_text.wellformed \/ r.exc THEN <<>>
       ELSE Take(r.papers, MAX_PAPERS_PER_AUTHOR)

\* parse_atom_feed(xml_text): ET.fromstring raises on text that is not well-formed;
\* any exception in the try block gives [].
parse_atom_feed(xml_text) ==
    LET r == ParseEntries(Take(xml_text.entries, MAX_PAPERS_PER_AUTHOR), <<>>)
    IN IF ~xml_text.wellformed \/ r.exc THEN <<>> ELSE r.papers

(***************************************************************************)
(* generate_html                                                           *)
(***************************************************************************)
\* The nested loops visit the papers of all authors in this order.
RECURSIVE Flatten(_)
Flatten(author_papers) ==
    IF author_papers = <<>> THEN <<>>
    ELSE Head(author_papers).papers \o Flatten(Tail(author_papers))

\* The loop body: skip a paper whose arxiv_id is truthy and seen, else remember a
\* truthy arxiv_id and append the paper.
RECURSIVE Dedup(_, _, _)
Dedup(papers, seen_arxiv_ids, acc) ==
    IF papers = <<>> THEN acc
    ELSE LET paper == Head(papers)
         IN IF Truthy(paper.arxiv_id) /\ paper.arxiv_id.s \in seen_arxiv_ids
            THEN Dedup(Tail(papers), seen_arxiv_ids, acc)
            ELSE Dedup(Tail(papers),
                       IF Truthy(paper.arxiv_id)
                       THEN seen_arxiv_ids \cup {paper.arxiv_id.s} ELSE seen_arxiv_ids,
                       Append(acc, paper))

\* A plausible slip: the truth test on arxiv_id is left out, so None and '' are ids too.
RECURSIVE DedupAnyId(_, _, _)
DedupAnyId(papers, seen_arxiv_ids, acc) ==
    IF papers = <<>> THEN acc
    ELSE LET paper == Head(papers)
         IN IF paper.arxiv_id \in seen_arxiv_ids
            THEN DedupAnyId(Tail(papers), seen_arxiv_ids, acc)
            ELSE DedupAnyId(Tail(papers), seen_arxiv_ids \cup {paper.arxiv_id},
                            Append(acc, paper))

MergeAnyId(author_papers) == DedupAnyId(Flatten(author_papers), {}, <<>>)

\* A plausible slip: seen_arxiv_ids is created inside the loop over the authors.
RECURSIVE MergeSeenPerAuthor(_)
MergeSeenPerAuthor(author_papers) ==
    IF author_papers = <<>> THEN <<>>
    ELSE Dedup(Head(author_papers).papers, {}, <<>>) \o MergeSeenPerAuthor(Tail(author_papers))

\* all_papers before the sort
Merge(author_papers) == Dedup(Flatten(author_papers), {}, <<>>)

\* list.sort compares the keys with <, which raises TypeError on None; every key of a
\* list of two or more is compared.
SortRaises(papers) == Len(papers) >= 2 /\ \E k \in 1..Len(papers) : papers[k].updated.none

\* Place paper behind every record whose key is not smaller than its own.
RECURSIVE InsertDesc(_, _)
InsertDesc(sorted, paper) ==
    IF sorted = <<>> THEN <<paper>>
    ELSE IF StrLess(Head(sorted).updated.s, paper.updated.s) THEN <<paper>> \o sorted
    ELSE <<Head(sorted)>> \o InsertDesc(Tail(sorted), paper)

RECURSIVE SortInto(_, _)
SortInto(papers, sorted) ==
    IF papers = <<>> THEN sorted
    ELSE SortInto(Tail(papers), InsertDesc(sorted, Head(papers)))

Reverse(s) == [k \in 1..Len(s) |-> s[Len(s) + 1 - k]]

\* A plausible slip: sort ascending, then reverse the list; equal keys end up reversed.
SortThenReverse(papers) == SortInto(Reverse(papers), <<>>)

\* all_papers.sort(key=lambda p: p['updated'], reverse=True): stable, descending.
SortByUpdated(papers) == SortInto(papers, <<>>)

NoneText == <<"N", "o", "n", "e">>

\* str(v) as an f-string inserts it
Interpolate(v) == IF v.none THEN NoneText ELSE v.s

\* ', '.join(...) raises TypeError on an item that is None.
JoinRaises(items) == \E k \in 1..Len(items) : items[k].none

JoinOpt(items) == Join(CommaSpace, [k \in 1..Len(items) |-> items[k].s])

BlockRaises(paper) ==
    \/ paper.categories # <<>> /\ JoinRaises(paper.categories)
    \/ JoinRaises(paper.authors)

\* One <div class="paper">: the values inserted into the template, in its order.
\* arxiv_id and categories are None where the template leaves the span out.
Block(i, paper) ==
    LET categories == IF paper.categories # <<>> THEN JoinOpt(paper.categories) ELSE <<>>
    IN [abstract_id |-> i,
        href |-> escape(paper.url),
        title |-> escape(paper.title),
        authors |-> escape(JoinOpt(paper.authors)),
        date |-> Interpolate(format_date(paper.published)),
        arxiv_id |-> IF Truthy(paper.arxiv_id) THEN Str(escape(paper.arxiv_id.s)) ELSE None,
        categories |-> IF categories # <<>> THEN Str(escape(categories)) ELSE None,
        summary |-> escape(paper.summary)]

Paper1 == <<"p", "a", "p", "e", "r">>

\* A plausible slip: the plural test is paper_count > 1.
FooterPluralAboveOne(paper_count) ==
    [count |-> paper_count, noun |-> Paper1 \o (IF paper_count > 1 THEN <<"s">> ELSE <<>>)]

\* {paper_count} paper{'s' if paper_count != 1 else ''} displayed
Footer(paper_count) ==
    [count |-> paper_count, noun |-> Paper1 \o (IF paper_count # 1 THEN <<"s">> ELSE <<>>)]

NoHtml == [no_results |-> FALSE, blocks |-> <<>>, footer |-> [count |-> 0, noun |-> <<>>]]

\* generate_html(all_author_papers): exc where it raises; all_papers is its local
\* list after the sort, html the document (the template's fixed text left out).
generate_html(author_papers) ==
    LET merged == Merge(author_papers)
        sorted == SortByUpdated(merged)
    IN IF SortRaises(merged) \/ \E k \in 1..Len(sorted) : BlockRaises(sorted[k])
       THEN [exc |-> TRUE, all_papers |-> <<>>, html |-> NoHtml]
       ELSE [exc |-> FALSE,
             all_papers |-> sorted,
             html |-> [no_results |-> sorted = <<>>,
                       blocks |-> [k \in 1..Len(sorted) |-> Block(k - 1, sorted[k])],
                       footer |-> Footer(Len(sorted))]]

(***************************************************************************)
(* fetch_author_feed and main                                              *)
(*                                                                         *)
(* The network's answer to urlopen(feed_url) is [status, text]: status is  *)
(* "HTTPError", "Exception" (any other exception of urlopen, read or       *)
(* decode) or "ok", text the decoded body [empty, wellformed, entries].    *)
(***************************************************************************)
NoText == [empty |-> TRUE, wellformed |-> FALSE, entries |-> <<>>]

\* fetch_author_feed(author), given the network's answer: None on either exception.
\* The URL built from the author decides nothing but which answer comes.
fetch_author_feed(response) ==
    IF response.status = "ok" THEN [none |-> FALSE, text |-> response.text]
    ELSE [none |-> TRUE, text |-> NoText]

\* The body of main's loop for one author: the dict appended to all_author_papers.
\* "if xml_data" is false for None and for ''.
AuthorPapers(author, xml) ==
    [author |-> author,
     papers |-> IF ~xml.none /\ ~xml.text.empty THEN parse_atom_feed(xml.text) ELSE <<>>]

(***************************************************************************)
(* Feed contents                                                           *)
(***************************************************************************)
StampOf(d) ==
    <<"2", "0", "2", "4", "-", "0", "1", "-", "0", d,
      "T", "0", "9", ":", "0", "0", ":", "0", "0", "Z">>

Url(rest) == <<"u">> \o rest

Term(c) == Str(<<"m", ".", c>>)

BaseEntry ==
    [tag |-> <<0, 0>>,
     title |-> El(Str(<<" ", "<", "T", ">", "\n">>)),
     summary |-> El(Str(<<" ", "a", "&", "b">>)),
     published |-> El(Str(StampOf("5"))),
     updated |-> El(Str(StampOf("5"))),
     id |-> El(Str(Url(AbsMarker \o <<"1">>))),
     authors |-> <<El(Str(<<"O", "'", "N">>)), El(Str(<<"P">>))>>,
     categories |-> <<Term("a"), Term("b"), Term("c"), Term("d")>>]

\* A second paper, older; no summary, no categories.
EntryB ==
    [BaseEntry EXCEPT !.id = El(Str(Url(AbsMarker \o <<"2">>))),
                      !.updated = El(Str(StampOf("2"))),
                      !.published = El(Str(<<"2", "0", "2", "4", "-", "0", "1", "-", "0", "2">>)),
                      !.summary = Absent,
                      !.categories = <<>>]

\* No '/abs/' in the id: arxiv_id is None.  Same updated as EntryB; published is
\* no date and holds markup.
EntryN ==
    [BaseEntry EXCEPT !.id = El(Str(Url(<<"/", "x">>))),
                      !.updated = El(Str(StampOf("2"))),
                      !.published = El(Str(<<"<", "b", ">">>)),
                      !.authors = <<>>]

\* The id ends in '/abs/': arxiv_id is ''.  No updated, no published.
EntryZ ==
    [BaseEntry EXCEPT !.id = El(Str(Url(AbsMarker))),
                      !.updated = Absent,
                      !.published = Absent]

\* A category without a term attribute.
EntryK ==
    [BaseEntry EXCEPT !.id = El(Str(Url(AbsMarker \o <<"3">>))),
                      !.categories = <<Term("a"), None>>]

\* No title element.
EntryS == [BaseEntry EXCEPT !.title = Absent]

\* An author element without a name element.
EntryX == [BaseEntry EXCEPT !.authors = <<El(Str(<<"P">>)), Absent>>]

\* An author whose name element has no text.
EntryNameNoText == [BaseEntry EXCEPT !.authors = <<El(None)>>]

\* An updated element without text.
EntryUpdatedNoText == [BaseEntry EXCEPT !.updated = El(None)]

Repeat(n, entry) == [k \in 1..n |-> entry]

GoodEntries == {BaseEntry, EntryB, EntryN, EntryZ}

ShortFeeds ==
    {<<>>} \cup {<<e>> : e \in GoodEntries} \cup {<<e, f>> : e, f \in GoodEntries}

SpecialFeeds ==
    {<<EntryK>>, <<EntryNameNoText>>, <<EntryUpdatedNoText>>,
     <<EntryB, EntryX>>, <<EntryS, EntryB>>}

\* Feeds of one entry more than the cap.
LongFeeds ==
    {Repeat(MAX_PAPERS_PER_AUTHOR - 1, EntryS) \o <<EntryB, EntryN>>,
     Repeat(MAX_PAPERS_PER_AUTHOR - 1, BaseEntry) \o <<EntryB, EntryN>>}

MainFeeds == ShortFeeds \cup SpecialFeeds \cup LongFeeds

Tagged(author, entries) ==
    [k \in 1..Len(entries) |-> [entries[k] EXCEPT !.tag = <<author, k>>]]

FeedText(author, entries) ==
    [empty |-> FALSE, wellformed |-> TRUE, entries |-> Tagged(author, entries)]

\* Text that ET.fromstring rejects.
Malformed == [empty |-> FALSE, wellformed |-> FALSE, entries |-> <<>>]

Responses(author) ==
    {[status |-> "HTTPError", text |-> NoText],
     [status |-> "Exception", text |-> NoText],
     [status |-> "ok", text |-> NoText],
     [status |-> "ok", text |-> Malformed]}
    \cup {[status |-> "ok", text |-> FeedText(author, f)] : f \in MainFeeds}

(***************************************************************************)
(* main as a state machine: one step per author, then generate_html, then  *)
(* the write of OUTPUT_FILE.                                               *)
(***************************************************************************)
MaxAuthors == 2

ParseIdle == p_pc = "idle" /\ p_xml = NoText /\ p_papers = <<>>

DateIdle == d_pc = "idle" /\ d_in = None /\ d_out = None /\ d_html = NoHtml

\* authors is len(AUTHORS); fetched is the history of the network's answers.
Init ==
    /\ authors \in 0..MaxAuthors
    /\ pc = IF authors = 0 THEN "generate" ELSE "loop"
    /\ idx = 1
    /\ xml_data = [none |-> TRUE, text |-> NoText]
    /\ all_author_papers = <<>>
    /\ all_papers = <<>>
    /\ html_content = NoHtml
    /\ fetched = <<>>
    /\ ParseIdle /\ DateIdle

\* for author in AUTHORS: one iteration
FetchAuthor(response) ==
    /\ pc = "loop"
    /\ xml_data' = fetch_author_feed(response)
    /\ all_author_papers' = Append(all_author_papers, AuthorPapers(idx, xml_data'))
    /\ fetched' = Append(fetched, response)
    /\ idx' = idx + 1
    /\ pc' = IF idx = authors THEN "generate" ELSE "loop"
    /\ UNCHANGED <<authors, all_papers, html_content, parseVars, dateVars>>

\* html_content = generate_html(all_author_papers); an exception ends main.
Generate ==
    /\ pc = "generate"
    /\ LET r == generate_html(all_author_papers)
       IN /\ pc' = IF r.exc THEN "raised" ELSE "write"
          /\ all_papers' = r.all_papers
          /\ html_content' = r.html
    /\ UNCHANGED <<authors, idx, xml_data, all_author_papers, fetched, parseVars, dateVars>>

\* with open(OUTPUT_FILE, 'w') ...: f.write(html_content)
WriteOk ==
    /\ pc = "write"
    /\ pc' = "done"
    /\ UNCHANGED <<authors, idx, xml_data, all_author_papers, all_papers, html_content,
                   fetched, parseVars, dateVars>>

\* open or write raises OSError
WriteFails ==
    /\ pc = "write"
    /\ pc' = "write_failed"
    /\ UNCHANGED <<authors, idx, xml_data, all_author_papers, all_papers, html_content,
                   fetched, parseVars, dateVars>>

Next ==
    \/ \E response \in Responses(idx) : FetchAuthor(response)
    \/ Generate
    \/ WriteOk
    \/ WriteFails

Spec == Init /\ [][Next]_vars

(***************************************************************************)
(* parse_atom_feed on its own, over feeds of every shape of entry          *)
(***************************************************************************)
MaxFeedLen == 2

EntryNoId == [BaseEntry EXCEPT !.id = Absent]

EntryIdNoText == [BaseEntry EXCEPT !.id = El(None)]

EntryTitleNoText == [BaseEntry EXCEPT !.title = El(None)]

EntrySummaryNoText == [BaseEntry EXCEPT !.summary = El(None)]

\* No title, and an author without a name.
EntrySX == [EntryS EXCEPT !.authors = <<Absent>>]

\* No id, and a summary without text.
EntryNoIdSummaryNoText == [EntryNoId EXCEPT !.summary = El(None)]

ParseEntrySet ==
    GoodEntries \cup
    {EntryK, EntryS, EntryX, EntryNoId, EntryIdNoText, EntryTitleNoText,
     EntrySummaryNoText, EntryNameNoText, EntryUpdatedNoText, EntrySX,
     EntryNoIdSummaryNoText}

SeqsUpTo(S, n) == UNION {[1..k -> S] : k \in 0..n}

\* Short feeds, and feeds that reach past the cap behind skipped or kept entries.
ParseFeeds ==
    SeqsUpTo(ParseEntrySet, MaxFeedLen)
    \cup {Repeat(MAX_PAPERS_PER_AUTHOR - 1, pad) \o tail :
            pad \in {EntryS, EntryB}, tail \in SeqsUpTo(ParseEntrySet, MaxFeedLen)}

ParseInputs == {Malformed} \cup {FeedText(1, f) : f \in ParseFeeds}

MainIdle ==
    /\ authors = 0 /\ pc = "idle" /\ idx = 1
    /\ xml_data = [none |-> TRUE, text |-> NoText]
    /\ all_author_papers = <<>> /\ all_papers = <<>>
    /\ html_content = NoHtml /\ fetched = <<>>

InitParse ==
    /\ p_pc = "call"
    /\ p_xml \in ParseInputs
    /\ p_papers = <<>>
    /\ MainIdle /\ DateIdle

\* papers = parse_atom_feed(xml_data)
ParseFeed ==
    /\ p_pc = "call"
    /\ p_papers' = parse_atom_feed(p_xml)
    /\ p_pc' = "returned"
    /\ UNCHANGED <<p_xml, mainVars, dateVars>>

SpecParse == InitParse /\ [][ParseFeed]_vars

(***************************************************************************)
(* format_date on its own, and the page of one record with that published  *)
(***************************************************************************)
DateParts ==
    {<<"2", "0", "2", "4", "-", "0", "1", "-", "0", "5">>,
     <<"2", "0", "2", "4", "-", "0", "2", "-", "2", "9">>,
     <<"2", "0", "2", "3", "-", "0", "2", "-", "2", "9">>,
     <<"2", "0", "2", "4", "-", "1", "3", "-", "0", "1">>,
     <<"2", "0", "2", "4", "-", "1", "-", "5">>,
     <<"n", "o", "t", "-", "a", "-", "d", "a", "t", "e">>,
     <<"<", "b", ">">>,
     <<>>}

Hms == <<"0", "9", ":", "0", "0", ":", "0", "0">>

RestParts ==
    {<<>>, <<"Z">>, <<"T">>, <<"x">>,
     <<"T", "0", "9">>, <<"T", "0", "9", ":", "0", "0">>,
     <<"T">> \o Hms, <<" ">> \o Hms, <<"T">> \o Hms \o <<"Z">>,
     <<"T", "2", "5", ":", "0", "0", ":", "0", "0">>,
     <<"T">> \o Hms \o <<".", "1", "2", "3">>,
     <<"T">> \o Hms \o <<".">>,
     <<"T">> \o Hms \o <<"-", "0", "5", ":", "0", "0">>,
     <<"T">> \o Hms \o <<"+", "2", "4", ":", "0", "0">>,
     <<"T">> \o Hms \o <<"Z", "Z">>}

DateInputs == {None} \cup {Str(d \o r) : d \in DateParts, r \in RestParts}

InitDate ==
    /\ d_pc = "call"
    /\ d_in \in DateInputs
    /\ d_out = None
    /\ d_html = NoHtml
    /\ MainIdle /\ ParseIdle

\* format_date(paper['published'])
FormatDate ==
    /\ d_pc = "call"
    /\ d_out' = format_date(d_in)
    /\ d_pc' = "formatted"
    /\ UNCHANGED <<d_in, d_html, mainVars, parseVars>>

\* The record that parse_atom_feed makes of an entry whose published text is d_in,
\* rendered by generate_html.
DatedPaper(published) == PaperOf([BaseEntry EXCEPT !.published = El(published)])

RenderDate ==
    /\ d_pc = "formatted"
    /\ d_html' = generate_html(<<[author |-> 1, papers |-> <<DatedPaper(d_in)>>]>>).html
    /\ d_pc' = "rendered"
    /\ UNCHANGED <<d_in, d_out, mainVars, parseVars>>

NextDate == FormatDate \/ RenderDate

SpecDate == InitDate /\ [][NextDate]_vars

(***************************************************************************)
(* Properties                                                              *)
(***************************************************************************)
\* generate_html has returned: all_papers and html_content are its results.
Rendered == pc \in {"write", "done", "write_failed"}

\* The papers in the order the merge visits them.
Visited == Flatten(all_author_papers)

Range(f) == {f[k] : k \in DOMAIN f}

Tags(papers) == [k \in 1..Len(papers) |-> papers[k].tag]

TagLess(s, t) == s[1] < t[1] \/ (s[1] = t[1] /\ s[2] < t[2])

SameIdPair(papers) ==
    \E i, j \in 1..Len(papers) :
        i < j /\ Truthy(papers[i].arxiv_id) /\ papers[i].arxiv_id = papers[j].arxiv_id

\* C1: the list generate_html renders holds no two records with the same non-empty
\* arxiv_id, wherever the duplicates were in the authors' sequences.
C1_NoDuplicateIds == ~SameIdPair(all_papers)

\* One author's sequence repeats an id, another author returns that id too, and the
\* page was rendered from them.
C1_Witness ==
    /\ Rendered
    /\ Len(all_papers) >= 2
    /\ \E a, b \in 1..Len(all_author_papers) :
          /\ a # b
          /\ SameIdPair(all_author_papers[a].papers)
          /\ SameIdPair(all_author_papers[a].papers \o all_author_papers[b].papers)
          /\ \E k \in 1..Len(all_author_papers[b].papers) :
                \E j \in 1..Len(all_author_papers[a].papers) :
                    /\ Truthy(all_author_papers[b].papers[k].arxiv_id)
                    /\ all_author_papers[b].papers[k].arxiv_id
                         = all_author_papers[a].papers[j].arxiv_id

\* C2: the rendered list is in descending order of the raw updated strings; records
\* with equal updated are in the order of the merge (author, then feed position);
\* records with an empty updated come after all others.
C2_SortedStable ==
    \A i, j \in 1..Len(all_papers) :
        i < j =>
            /\ ~StrLess(all_papers[i].updated.s, all_papers[j].updated.s)
            /\ (all_papers[i].updated.s = all_papers[j].updated.s
                  => TagLess(all_papers[i].tag, all_papers[j].tag))
            /\ (all_papers[i].updated.s = <<>> => all_papers[j].updated.s = <<>>)

\* A page with two different dates, two records of the same date, and a record
\* without a date; the merge had them in another order.
C2_Witness ==
    /\ Rendered
    /\ \E i, j, k, l \in 1..Len(all_papers) :
          /\ i < j /\ j < k /\ k < l
          /\ all_papers[i].updated.s # all_papers[j].updated.s
          /\ all_papers[j].updated.s = all_papers[k].updated.s
          /\ all_papers[k].updated.s # <<>>
          /\ all_papers[l].updated.s = <<>>
    /\ Tags(all_papers) # Tags(Visited)

Markup == {"<", ">", "\"", "'"}

NoMarkup(str) == \A k \in 1..Len(str) : str[k] \notin Markup

\* C3: no value that generate_html inserts into a paper block (url, title, authors,
\* date, arxiv_id, categories, summary) holds a markup character: each went through
\* escape.
C3_AllInsertedEscaped ==
    \A k \in 1..Len(html_content.blocks) :
        LET b == html_content.blocks[k]
        IN /\ NoMarkup(b.href) /\ NoMarkup(b.title) /\ NoMarkup(b.authors)
           /\ NoMarkup(b.date)
           /\ NoMarkup(b.arxiv_id.s) /\ NoMarkup(b.categories.s)
           /\ NoMarkup(b.summary)

\* C4: whatever the fetches return, main does not end by an exception before the
\* write of the output file.
C4_NoAbortBeforeWrite == pc # "raised"

FetchFailed(a) == fetched[a].status # "ok"

EntryRaisesWithinCap(text) ==
    \E k \in 1..Len(text.entries) : k <= MAX_PAPERS_PER_AUTHOR /\ EntryRaises(text.entries[k])

ParseFailed(a) ==
    /\ fetched[a].status = "ok" /\ ~fetched[a].text.empty
    /\ ~fetched[a].text.wellformed \/ EntryRaisesWithinCap(fetched[a].text)

Succeeded(a) ==
    /\ fetched[a].status = "ok" /\ ~fetched[a].text.empty /\ fetched[a].text.wellformed
    /\ ~EntryRaisesWithinCap(fetched[a].text)

SucceededData(author_data) == Succeeded(author_data.author)

\* The entries an author's feed offers: those with title and id among the first cap.
Offered(text) == SelectSeq(Take(text.entries, MAX_PAPERS_PER_AUTHOR), EntryKept)

\* C5: an author whose fetch or parse failed contributes no paper, every other author
\* contributes the papers of its feed, and the page is the deduplicated, sorted list
\* and blocks of the authors that succeeded.
C5_FailuresIsolated ==
    /\ \A a \in 1..Len(all_author_papers) :
          /\ (FetchFailed(a) \/ ParseFailed(a)) => all_author_papers[a].papers = <<>>
          /\ Succeeded(a) =>
                Tags(all_author_papers[a].papers) = Tags(Offered(fetched[a].text))
    /\ Rendered =>
          LET page == generate_html(SelectSeq(all_author_papers, SucceededData))
          IN ~page.exc /\ all_papers = page.all_papers /\ html_content = page.html

\* An author's feed raised in the parser behind a complete entry, and the page shows
\* another author's papers.
C5_Witness ==
    /\ Rendered
    /\ all_papers # <<>>
    /\ \E a \in 1..Len(fetched) :
          /\ ParseFailed(a) /\ fetched[a].text.wellformed
          /\ Offered(fetched[a].text) # <<>>

\* C6: only entries among the first MAX_PAPERS_PER_AUTHOR of a feed become papers of
\* that author, in feed order, and so only those reach the page.
C6_CapBeforeDedup ==
    /\ \A a \in 1..Len(all_author_papers) :
          LET papers == all_author_papers[a].papers
          IN /\ \A k \in 1..Len(papers) :
                   papers[k].tag[1] = a /\ papers[k].tag[2] <= MAX_PAPERS_PER_AUTHOR
             /\ \A j, k \in 1..Len(papers) : j < k => papers[j].tag[2] < papers[k].tag[2]
    /\ \A k \in 1..Len(all_papers) : all_papers[k].tag[2] <= MAX_PAPERS_PER_AUTHOR

OnPage(tag) == \E k \in 1..Len(all_papers) : all_papers[k].tag = tag

\* A feed longer than the cap, with an entry of its first cap skipped or removed as
\* a duplicate, whose entry at the cap is on the page and whose later entry, complete
\* as it is, is not.
C6_Witness ==
    /\ Rendered
    /\ \E a \in 1..Len(fetched) :
          LET entries == fetched[a].text.entries
          IN /\ Len(entries) > MAX_PAPERS_PER_AUTHOR
             /\ EntryKept(entries[MAX_PAPERS_PER_AUTHOR + 1])
             /\ ~OnPage(<<a, MAX_PAPERS_PER_AUTHOR + 1>>)
             /\ OnPage(<<a, MAX_PAPERS_PER_AUTHOR>>)
             /\ \E k \in 1..MAX_PAPERS_PER_AUTHOR : ~OnPage(<<a, k>>)

Papers == Paper1 \o <<"s">>

\* C7: the footer's count is the length of the deduplicated list and the number of
\* blocks; it is followed by 'paper' for 1 and by 'papers' for any other count.
C7_FooterCount ==
    Rendered =>
        /\ html_content.footer.count = Len(all_papers)
        /\ html_content.footer.count = Len(html_content.blocks)
        /\ html_content.footer.noun = IF html_content.footer.count = 1 THEN Paper1 ELSE Papers

\* The page of one record left of several by the merge: '1 paper'.
C7_Witness ==
    /\ Rendered
    /\ Len(Visited) > 1
    /\ html_content.footer = [count |-> 1, noun |-> Paper1]

Unparseable(date_string) ==
    ~date_string.none /\ ~fromisoformat(Replace(date_string.s, "Z", UtcOffset)).ok

\* C8: format_date returns a string that does not parse as it was given, and the
\* block of a record with that published shows it as its date.
C8_MalformedDateUnchanged ==
    /\ (d_pc \in {"formatted", "rendered"} /\ Unparseable(d_in)) => d_out = d_in
    /\ (d_pc = "rendered" /\ Unparseable(d_in)) =>
          Len(d_html.blocks) = 1 /\ d_html.blocks[1].date = d_in.s

NotADate == <<"n", "o", "t", "-", "a", "-", "d", "a", "t", "e">>

\* 'not-a-date', with a 'Z' behind it, rendered as it is.
C8_Witness ==
    /\ d_pc = "rendered"
    /\ d_in = Str(NotADate \o <<"Z">>)
    /\ d_out = d_in
    /\ d_html.blocks[1].date = NotADate \o <<"Z">>

\* Whether the merge dropped Visited[k], given what counts as an id.
Dropped(k) == ~OnPage(Visited[k].tag)

EarlierSameId(k) == \E j \in 1..(k - 1) : Visited[j].arxiv_id = Visited[k].arxiv_id

NothingElse ==
    /\ Range(all_papers) \subseteq Range(Visited)
    /\ \A i, j \in 1..Len(all_papers) : i # j => all_papers[i].tag # all_papers[j].tag

\* C9, as claimed: a record is dropped exactly when its arxiv_id is present (not None)
\* and an earlier record of the merge order has the same arxiv_id.
C9_DropIffPresentAndSeen ==
    Rendered =>
        /\ \A k \in 1..Len(Visited) :
              Dropped(k) <=> (~Visited[k].arxiv_id.none /\ EarlierSameId(k))
        /\ NothingElse

\* C9, amended: a record is dropped exactly when its arxiv_id is present and not
\* empty and an earlier record of the merge order has the same arxiv_id; the kept
\* record of an id is the first visited, and nothing else is dropped or added.
C9_DropIffNonEmptyAndSeen ==
    Rendered =>
        /\ \A k \in 1..Len(Visited) :
              Dropped(k) <=> (Truthy(Visited[k].arxiv_id) /\ EarlierSameId(k))
        /\ NothingElse

\* Two authors return the same id and equal records without an id: the second copy
\* of the id is dropped, the records without id are all kept.
C9_Witness ==
    /\ Rendered
    /\ \E j, k \in 1..Len(Visited) :
          /\ Visited[j].tag[1] < Visited[k].tag[1]
          /\ Truthy(Visited[k].arxiv_id) /\ Visited[j].arxiv_id = Visited[k].arxiv_id
          /\ OnPage(Visited[j].tag) /\ Dropped(k)
    /\ \E j, k \in 1..Len(Visited) :
          /\ j < k
          /\ Visited[j].arxiv_id.none /\ Visited[k].arxiv_id.none
          /\ [Visited[j] EXCEPT !.tag = <<0, 0>>] = [Visited[k] EXCEPT !.tag = <<0, 0>>]
          /\ OnPage(Visited[j].tag) /\ OnPage(Visited[k].tag)

\* C10: of a well-formed feed, parse_atom_feed returns the records of exactly the
\* entries among the first cap that have a title and an id, in feed order, whatever
\* else the entries hold.
C10_SkipsOnlyIncomplete ==
    (p_pc = "returned" /\ p_xml.wellformed) => Tags(p_papers) = Tags(Offered(p_xml))

====
